---- MODULE Spec2Model ----
(***************************************************************************)
(* transform-jsx-to-htm-lite: the JSX -> tagged-template rewrite rules and *)
(* the comment scanner parseMaybeComments they use.                        *)
(*                                                                         *)
(* Text is a sequence of one-character strings; offsets are 0-based as in  *)
(* the JavaScript source, so the character at offset i is code[i + 1].     *)
(***************************************************************************)
EXTENDS Integers, Sequences, FiniteSets, TLC

VARIABLES
    code,       \* ms.original: the original source text
    ast,        \* the nodes the visitor is called on, in traversal order
    comments,   \* path.hub.file.ast.comments
    options,    \* the plugin options {tag, terse, import}
    pc,         \* position of the traversal in ast; Len(ast) + 2 when finished
    out,        \* the edits issued so far against the original text
    jsx,        \* state.jsx
    start,      \* parseMaybeComments: the start argument
    sc,         \* parseMaybeComments: the locals of the running scan
    scanPc,     \* parseMaybeComments: "idle", "loop" or "done"
    result      \* parseMaybeComments: the returned list

vars == <<code, ast, comments, options, pc, out, jsx, start, sc, scanPc, result>>

(***************************************************************************)
(* Bounds of the model.                                                    *)
(***************************************************************************)
MaxToks == 4        \* tokens of a text handed to the scanner alone
MaxStart == 2       \* largest start offset handed to the scanner alone
MaxBody == 5        \* gap and attribute tokens of an opening tag
MaxAttrs == 2       \* attributes of an opening tag
MaxIndent == 2      \* spaces of indentation after a line break
MaxNodes == 5       \* tokens of a file of nested JSX

(***************************************************************************)
(* Strings.                                                                *)
(***************************************************************************)
\* the backtick and the apostrophe, as values of their own
Backtick == "BACKTICK"
Apostrophe == "APOSTROPHE"

Min(a, b) == IF a < b THEN a ELSE b

RECURSIVE Flatten(_)
Flatten(ss) == IF ss = <<>> THEN <<>> ELSE Head(ss) \o Flatten(Tail(ss))

\* String.prototype.charAt: "" outside the string
charAt(s, i) == IF i >= 0 /\ i < Len(s) THEN s[i + 1] ELSE ""

\* String.prototype.slice for 0 <= a <= b
slice(s, a, b) == SubSeq(s, a + 1, Min(b, Len(s)))

\* /\s/.test(char), on the characters of the model's alphabet
IsSpace(ch) == ch \in {" ", "\n", "\r", "\t"}

\* str.match(/^\s+/)
MatchLeadingSpace(s) == Len(s) >= 1 /\ IsSpace(s[1])

\* str.match(/^\n\s+/)
MatchNewlineSpace(s) == Len(s) >= 2 /\ s[1] = "\n" /\ IsSpace(s[2])

(***************************************************************************)
(* parseMaybeComments(code, start)                                         *)
(***************************************************************************)
NONE == 0
SINGLE == 1
MULTI == 2

\* the locals before the first iteration
ScanInit(st) ==
    [i |-> st, type |-> NONE, commentStart |-> 0, lineStart |-> st,
     out |-> <<>>, brk |-> FALSE]

\* type === SINGLE
ScanSingle(c, s) ==
    LET char == charAt(c, s.i) IN
    IF char = "\n" \/ char = "\r"
    THEN LET cs == IF s.lineStart < s.commentStart
                      /\ MatchLeadingSpace(slice(c, s.lineStart, s.commentStart))
                   THEN s.lineStart + 1
                   ELSE s.commentStart
             end == s.i + 1
         IN  [s EXCEPT !.commentStart = cs,
                       !.out = Append(@, [start |-> cs, end |-> end]),
                       !.lineStart = s.i,
                       !.type = NONE,
                       !.i = end + 1]
    ELSE [s EXCEPT !.i = @ + 1]

\* type === MULTI
ScanMulti(c, s) ==
    LET char == charAt(c, s.i) IN
    IF char = "*" /\ charAt(c, s.i + 1) = "/"
    THEN LET cs == IF s.lineStart < s.commentStart
                      /\ MatchNewlineSpace(slice(c, s.lineStart, s.commentStart))
                   THEN s.lineStart + 1
                   ELSE s.commentStart
             next == charAt(c, s.i + 2)
             end == IF next = "\n" \/ next = "\r" THEN s.i + 3 ELSE s.i + 2
         IN  [s EXCEPT !.commentStart = cs,
                       !.out = Append(@, [start |-> cs, end |-> end]),
                       !.type = NONE,
                       !.i = end + 1]
    ELSE [s EXCEPT !.i = @ + 1]

\* type === NONE
ScanNone(c, s) ==
    LET char == charAt(c, s.i) IN
    IF char = "/"
    THEN IF charAt(c, s.i + 1) = "/"
         THEN [s EXCEPT !.type = SINGLE, !.commentStart = s.i, !.i = @ + 2]
         ELSE IF charAt(c, s.i + 1) = "*"
         THEN [s EXCEPT !.type = MULTI, !.commentStart = s.i, !.i = @ + 2]
         ELSE [s EXCEPT !.i = @ + 1]
    ELSE IF char = "\n"
    THEN [s EXCEPT !.lineStart = s.i, !.i = @ + 1]
    ELSE IF IsSpace(char)
    THEN [s EXCEPT !.commentStart = @ + 1, !.i = @ + 1]
    ELSE [s EXCEPT !.brk = TRUE]

\* one iteration of the for loop, its i++ included
ScanIter(c, s) ==
    IF s.type = SINGLE THEN ScanSingle(c, s)
    ELSE IF s.type = MULTI THEN ScanMulti(c, s)
    ELSE ScanNone(c, s)

\* the loop condition: i < code.length, and no break taken
ScanRunning(c, s) == s.i < Len(c) /\ ~s.brk

RECURSIVE ScanLoop(_, _)
ScanLoop(c, s) == IF ScanRunning(c, s) THEN ScanLoop(c, ScanIter(c, s)) ELSE s

\* a scan that closes the comment it is in when the input ends
ScanReturnClosing(c, s) ==
    IF s.type # NONE
    THEN Append(s.out, [start |-> s.commentStart, end |-> Len(c)])
    ELSE s.out

\* return out
ScanReturn(c, s) == s.out

parseMaybeComments(c, st) == ScanReturn(c, ScanLoop(c, ScanInit(st)))

(***************************************************************************)
(* Syntax tree.  A node carries the fields the visitor reads; the fields a *)
(* node kind does not have hold an empty value.                            *)
(***************************************************************************)
NoName == [type |-> "none", name |-> <<>>, start |-> 0, end |-> 0]
NoParent == [type |-> "none", parent |-> [type |-> "none"]]

Node(type, s, e, parentPath) ==
    [type |-> type, start |-> s, end |-> e, parentPath |-> parentPath,
     name |-> NoName, attributes |-> <<>>, selfClosing |-> FALSE,
     value |-> <<>>, expression |-> "none", argument |-> [start |-> 0, end |-> 0]]

\* the JSXElement / JSXFragment above an opening or closing tag, and the
\* node above that
Within(type, above) == [type |-> type, parent |-> [type |-> above]]

\* tag names: JSXIdentifier, JSXMemberExpression, JSXNamespacedName
TagNames ==
    { [type |-> "JSXIdentifier", src |-> <<"a">>],
      [type |-> "JSXIdentifier", src |-> <<"A">>],
      [type |-> "JSXIdentifier", src |-> <<"a", "$">>],
      [type |-> "JSXMemberExpression", src |-> <<"C", ".", "P">>],
      [type |-> "JSXNamespacedName", src |-> <<"n", ":", "a">>] }

\* the name node of a tag: only a JSXIdentifier has a name property
NameNode(tn, s) ==
    [type |-> tn.type,
     name |-> IF tn.type = "JSXIdentifier" THEN tn.src ELSE <<>>,
     start |-> s, end |-> s + Len(tn.src)]

(***************************************************************************)
(* Files of nested JSX: a well-nested sequence of tokens over              *)
(*   js  <n>  <n/>  </n>  <>  </>  t  &  {  }  e                           *)
(* with one tag name n for the file.  The stack holds the open constructs; *)
(* an expression container holds nothing, one expression or one JSX node.  *)
(***************************************************************************)
TopOf(stack) == IF stack = <<>> THEN "Program" ELSE stack[Len(stack)].type

\* plain JavaScript, when the file has any, comes first
AllowedToks(f) ==
    LET stack == f.stack
        top == TopOf(stack) IN
    IF top = "Program"
    THEN {"open", "self", "fopen"} \cup (IF f.toks = 0 THEN {"js"} ELSE {})
    ELSE IF top = "JSXElement"
    THEN {"open", "self", "fopen", "text", "textq", "eopen", "close"}
    ELSE IF top = "JSXFragment"
    THEN {"open", "self", "fopen", "text", "textq", "eopen", "fclose"}
    ELSE IF top = "JSXExpressionContainer"
    THEN {"open", "self", "fopen", "expr", "eclose"}
    ELSE {"eclose"}     \* a filled expression container

Pop(stack) == SubSeq(stack, 1, Len(stack) - 1)

\* a token has filled the expression container on top of the stack, if any
Filled(stack) ==
    IF TopOf(stack) = "JSXExpressionContainer"
    THEN [stack EXCEPT ![Len(stack)].type = "JSXExpressionContainer+"]
    ELSE stack

TokText(tok, tn) ==
    CASE tok = "js" -> <<"x", ";">>
      [] tok = "open" -> <<"<">> \o tn.src \o <<">">>
      [] tok = "self" -> <<"<">> \o tn.src \o <<"/", ">">>
      [] tok = "close" -> <<"<", "/">> \o tn.src \o <<">">>
      [] tok = "fopen" -> <<"<", ">">>
      [] tok = "fclose" -> <<"<", "/", ">">>
      [] tok = "text" -> <<"t">>
      [] tok = "textq" -> <<"&">>
      [] tok = "eopen" -> <<"{">>
      [] tok = "eclose" -> <<"}">>
      [] tok = "expr" -> <<"e">>

\* the file after one more token: text, nodes and stack
AddTok(f, tok, tn) ==
    LET s == Len(f.code)
        txt == TokText(tok, tn)
        e == s + Len(txt)
        top == TopOf(f.stack)
        above == IF top = "JSXExpressionContainer+" THEN "JSXExpressionContainer"
                 ELSE IF top = "Program" THEN "ExpressionStatement" ELSE top
        below == LET b == TopOf(Pop(f.stack)) IN
                 IF b = "JSXExpressionContainer+" THEN "JSXExpressionContainer"
                 ELSE IF b = "Program" THEN "ExpressionStatement" ELSE b
        entry(type) == [type |-> type, node |-> Len(f.ast) + 1]
        nodes ==
            CASE tok = "open" ->
                   <<[Node("JSXOpeningElement", s, e, Within("JSXElement", above))
                        EXCEPT !.name = NameNode(tn, s + 1)]>>
              [] tok = "self" ->
                   <<[Node("JSXOpeningElement", s, e, Within("JSXElement", above))
                        EXCEPT !.name = NameNode(tn, s + 1), !.selfClosing = TRUE]>>
              [] tok = "close" ->
                   <<[Node("JSXClosingElement", s, e, Within("JSXElement", below))
                        EXCEPT !.name = NameNode(tn, s + 2)]>>
              [] tok = "fopen" ->
                   <<Node("JSXOpeningFragment", s, e, Within("JSXFragment", above))>>
              [] tok = "fclose" ->
                   <<Node("JSXClosingFragment", s, e, Within("JSXFragment", below))>>
              [] tok \in {"text", "textq"} ->
                   <<[Node("JSXText", s, e, Within(top, "none")) EXCEPT !.value = txt]>>
              [] tok = "eopen" ->
                   <<[Node("JSXExpressionContainer", s, e, Within(top, "none"))
                        EXCEPT !.expression = "JSXEmptyExpression"]>>
              [] OTHER -> <<>>
        \* the container being filled or closed, when there is one
        box == IF f.stack # <<>> /\ top \in {"JSXExpressionContainer", "JSXExpressionContainer+"}
               THEN f.stack[Len(f.stack)].node ELSE 0
        ast1 == IF tok = "eclose"
                THEN [f.ast EXCEPT ![box].end = e]
                ELSE IF top = "JSXExpressionContainer"
                THEN [f.ast EXCEPT ![box].expression =
                        IF tok = "expr" THEN "Identifier"
                        ELSE IF tok = "fopen" THEN "JSXFragment" ELSE "JSXElement"]
                ELSE f.ast
        stack1 ==
            CASE tok = "open" -> Append(Filled(f.stack), entry("JSXElement"))
              [] tok = "fopen" -> Append(Filled(f.stack), entry("JSXFragment"))
              [] tok = "eopen" -> Append(f.stack, entry("JSXExpressionContainer"))
              [] tok \in {"close", "fclose", "eclose"} -> Pop(f.stack)
              [] tok \in {"self", "expr"} -> Filled(f.stack)
              [] OTHER -> f.stack
    IN  [code |-> f.code \o txt \o (IF stack1 = <<>> THEN <<"\n">> ELSE <<>>),
         ast |-> ast1 \o nodes,
         stack |-> stack1,
         toks |-> f.toks + 1]

RECURSIVE PartialFiles(_, _)
PartialFiles(tn, n) ==
    IF n = 0
    THEN { [code |-> <<>>, ast |-> <<>>, stack |-> <<>>, toks |-> 0] }
    ELSE LET prev == PartialFiles(tn, n - 1) IN
         prev \cup { AddTok(f, tok, tn) :
                       <<f, tok>> \in { ft \in prev \X {"js", "open", "self", "close", "fopen",
                                                         "fclose", "text", "textq", "eopen",
                                                         "eclose", "expr"} :
                                           /\ ft[1].toks = n - 1
                                           /\ ft[2] \in AllowedToks(ft[1]) } }

NestedFiles(tn) == { f \in PartialFiles(tn, MaxNodes) : f.stack = <<>> /\ f.toks >= 1 }

(***************************************************************************)
(* Files of one element whose opening tag holds whitespace, comments and   *)
(* attributes: "<" name body then "/>" or ">" child "</" name ">".         *)
(* Body tokens:  S a space;  L a line break and the next line's            *)
(* indentation;  C the line comment //x (a line break follows it);         *)
(* B the block comment /*x*/;  Av the attribute b="v";  Ae b={/*x*/e};     *)
(* As {...e}.                                                              *)
(***************************************************************************)
GapToks == {"S", "L", "C", "B"}
AttrToks == {"Av", "Ae", "As"}

LastTok(body) == IF body = <<>> THEN "name" ELSE body[Len(body)]
NumAttrs(body) == Cardinality({k \in 1..Len(body) : body[k] \in AttrToks})

\* whitespace is one token at a time; a name needs a separator before it
AllowedBody(body) ==
    IF LastTok(body) = "C" THEN {"L"}
    ELSE (IF LastTok(body) \in {"S", "L"} THEN {"C", "B"} ELSE GapToks) \cup
         (IF NumAttrs(body) < MaxAttrs
          THEN {"As"} \cup (IF LastTok(body) = "name" THEN {} ELSE {"Av", "Ae"})
          ELSE {})

RECURSIVE PartialBodies(_)
PartialBodies(n) ==
    IF n = 0 THEN { <<>> }
    ELSE LET prev == PartialBodies(n - 1) IN
         prev \cup { Append(bt[1], bt[2]) :
                       bt \in { c \in prev \X (GapToks \cup AttrToks) :
                                  Len(c[1]) = n - 1 /\ c[2] \in AllowedBody(c[1]) } }

Bodies == { b \in PartialBodies(MaxBody) : LastTok(b) # "C" }

Eols == { <<"\n">>, <<"\r">>, <<"\r", "\n">> }
Spaces(n) == [k \in 1..n |-> " "]

BodyText(tok, eol, indent) ==
    CASE tok = "S" -> <<" ">>
      [] tok = "L" -> eol \o Spaces(indent)
      [] tok = "C" -> <<"/", "/", "x">>
      [] tok = "B" -> <<"/", "*", "x", "*", "/">>
      [] tok = "Av" -> <<"b", "=", "\"", "v", "\"">>
      [] tok = "Ae" -> <<"b", "=", "{", "/", "*", "x", "*", "/", "e", "}">>
      [] tok = "As" -> <<"{", ".", ".", ".", "e", "}">>

Comment(type, s, e) == [type |-> type, start |-> s, end |-> e]

\* the tag after one more body token: text, attributes, attribute-level
\* nodes the visitor is called on, comments of the parser, token offsets
AddBody(t, tok, eol, indent) ==
    LET s == Len(t.code)
        txt == BodyText(tok, eol, indent)
        e == s + Len(txt)
    IN  [code |-> t.code \o txt,
         attributes |->
             IF tok \in AttrToks
             THEN Append(t.attributes,
                         [type |-> IF tok = "As" THEN "JSXSpreadAttribute" ELSE "JSXAttribute",
                          start |-> s, end |-> e])
             ELSE t.attributes,
         inner |->
             CASE tok = "As" ->
                    Append(t.inner,
                           [Node("JSXSpreadAttribute", s, e, Within("JSXOpeningElement", "JSXElement"))
                              EXCEPT !.argument = [start |-> s + 4, end |-> e - 1]])
               [] tok = "Ae" ->
                    Append(t.inner,
                           [Node("JSXExpressionContainer", s + 2, e, Within("JSXAttribute", "JSXOpeningElement"))
                              EXCEPT !.expression = "Identifier"])
               [] OTHER -> t.inner,
         comments |->
             CASE tok = "C" -> Append(t.comments, Comment("Line", s, e))
               [] tok = "B" -> Append(t.comments, Comment("Block", s, e))
               [] tok = "Ae" -> Append(t.comments, Comment("Block", s + 3, s + 8))
               [] OTHER -> t.comments,
         offsets |-> Append(t.offsets, s)]

RECURSIVE BuildBody(_, _, _, _)
BuildBody(t, body, eol, indent) ==
    IF body = <<>> THEN t
    ELSE BuildBody(AddBody(t, Head(body), eol, indent), Tail(body), eol, indent)

Children == { <<>>, <<"/", "/", "x", "\n">> }

\* child = <<>> stands for the self-closing tag
TagFile(tn, body, eol, indent, child) ==
    LET t == BuildBody([code |-> <<"<">> \o tn.src, attributes |-> <<>>, inner |-> <<>>,
                        comments |-> <<>>, offsets |-> <<>>],
                       body, eol, indent)
        selfClosing == child = <<>>
        openEnd == Len(t.code) + (IF selfClosing THEN 2 ELSE 1)
        textEnd == openEnd + Len(child)
        closeEnd == textEnd + 2 + Len(tn.src) + 1
        opening == [Node("JSXOpeningElement", 0, openEnd, Within("JSXElement", "ExpressionStatement"))
                      EXCEPT !.name = NameNode(tn, 1),
                             !.attributes = t.attributes,
                             !.selfClosing = selfClosing]
    IN  [code |-> IF selfClosing
                  THEN t.code \o <<"/", ">", "\n">>
                  ELSE t.code \o <<">">> \o child \o <<"<", "/">> \o tn.src \o <<">", "\n">>,
         ast |-> <<opening>> \o t.inner \o
                 (IF selfClosing THEN <<>>
                  ELSE <<[Node("JSXText", openEnd, textEnd, Within("JSXElement", "none"))
                            EXCEPT !.value = child],
                         [Node("JSXClosingElement", textEnd, closeEnd,
                               Within("JSXElement", "ExpressionStatement"))
                            EXCEPT !.name = NameNode(tn, textEnd + 2)]>>),
         comments |-> t.comments,
         body |-> body,
         offsets |-> t.offsets]

HasLine(body) == \E k \in 1..Len(body) : body[k] = "L"

\* the line terminator varies at indentation 1, the indentation at "\n"
Layouts ==
    { y \in Bodies \X Eols \X (1..MaxIndent) :
        /\ y[2] = <<"\n">> \/ y[3] = 1
        /\ HasLine(y[1]) \/ (y[2] = <<"\n">> /\ y[3] = 1) }

TagName == CHOOSE tn \in TagNames : tn.src = <<"A">>

TagFiles ==
    { TagFile(TagName, y[1], y[2], y[3], child) : y \in Layouts, child \in Children }

(***************************************************************************)
(* The plugin: options, predicates and the edits each visitor issues.      *)
(* An edit names the operation, the range of the original text (or of the  *)
(* node) it is keyed by, and the text it inserts.                          *)
(***************************************************************************)
Edit(op, s, e, text) == [op |-> op, start |-> s, end |-> e, text |-> text]

\* path.prependString / appendString / replaceWithString / remove
prependString(n, str) == Edit("prependString", n.start, n.end, str)
appendString(n, str) == Edit("appendString", n.start, n.end, str)
replaceWithString(n, str) == Edit("replaceWithString", n.start, n.end, str)
removePath(n) == Edit("removePath", n.start, n.end, <<>>)

\* ms.remove / ms.overwrite / ms.appendRight
remove(s, e) == Edit("remove", s, e, <<>>)
overwrite(s, e, str) == Edit("overwrite", s, e, str)
appendRight(i, str) == Edit("appendRight", i, i, str)

Upper ==
    {"A", "B", "C", "D", "E", "F", "G", "H", "I", "J", "K", "L", "M",
     "N", "O", "P", "Q", "R", "S", "T", "U", "V", "W", "X", "Y", "Z"}

\* /(^[A-Z]|[.$])/.test(name)
MatchComponentName(name) ==
    \/ Len(name) >= 1 /\ name[1] \in Upper
    \/ \E k \in 1..Len(name) : name[k] \in {".", "$"}

isJSXIdentifier(node) == node.type = "JSXIdentifier"
isJSXMemberExpression(node) == node.type = "JSXMemberExpression"
isJSXElement(node) == node.type = "JSXElement"
isJSXFragment(node) == node.type = "JSXFragment"
isJSXEmptyExpression(expression) == expression = "JSXEmptyExpression"

isIdent(node) ==
    IF isJSXIdentifier(node) THEN MatchComponentName(node.name)
    ELSE IF isJSXMemberExpression(node) THEN TRUE
    ELSE FALSE

\* a root test that looks for an enclosing element only
isRootElementNoFragment(path) == ~isJSXElement(path.parentPath.parent)

isRootElement(path) ==
    ~isJSXElement(path.parentPath.parent) /\ ~isJSXFragment(path.parentPath.parent)

\* options.tag || 'html'
tagString == IF options.tag # <<>> THEN options.tag ELSE <<"h", "t", "m", "l">>

\* options.import || false
tagImport == options.import

\* `${v}` of the value of node.name.name
Undefined == <<"u", "n", "d", "e", "f", "i", "n", "e", "d">>
ObjectObject == <<"[", "o", "b", "j", "e", "c", "t", " ", "O", "b", "j", "e", "c", "t", "]">>

NameProperty(nameNode) ==
    IF nameNode.type = "JSXIdentifier" THEN nameNode.name
    ELSE IF nameNode.type = "JSXMemberExpression" THEN Undefined
    ELSE ObjectObject

commentToHtml(comment) ==
    IF comment.start >= 0
    THEN <<overwrite(comment.start, comment.start + 2, <<"<", "!", "-", "-">>),
           IF comment.type = "Block"
           THEN overwrite(comment.end - 2, comment.end, <<"-", "-", ">">>)
           ELSE appendRight(comment.end, <<"-", "-", ">">>)>>
    ELSE <<>>

\* name.prependString('${'); name.appendString('}')
WrapName(path) ==
    IF isIdent(path.name)
    THEN <<prependString(path.name, <<"$", "{">>), appendString(path.name, <<"}">>)>>
    ELSE <<>>

\* the offsets the scanner is run from: name.end, then each attr.end
ScanStarts(path) ==
    <<path.name.end>> \o [k \in 1..Len(path.attributes) |-> path.attributes[k].end]

RemoveAll(spans) == [k \in 1..Len(spans) |-> remove(spans[k].start, spans[k].end)]

\* the removal without its last scan, the one after the last attribute
RemoveCommentsNoLast(path) ==
    IF Len(path.attributes) > 0
    THEN Flatten([k \in 1..Len(path.attributes) |->
                    RemoveAll(parseMaybeComments(code, ScanStarts(path)[k]))])
    ELSE <<>>

\* the removal of the comments between attributes
RemoveComments(path) ==
    IF Len(path.attributes) > 0
    THEN Flatten([k \in 1..Len(ScanStarts(path)) |->
                    RemoveAll(parseMaybeComments(code, ScanStarts(path)[k]))])
    ELSE <<>>

\* the template delimiters of a root opening tag
DelimitOpening(path) ==
    IF isRootElement(path)
    THEN <<prependString(path, tagString \o <<Backtick>>)>>
         \o (IF path.selfClosing THEN <<appendString(path, <<Backtick>>)>> ELSE <<>>)
    ELSE <<>>

inExpression(path, comment) ==
    \E k \in 1..Len(path.attributes) :
        comment.start >= path.attributes[k].start /\ comment.end <= path.attributes[k].end

\* the conversion of the comments of the opening tag into HTML comments
ConvertComments(path) ==
    Flatten([k \in 1..Len(comments) |->
        IF /\ comments[k].start >= path.name.end
           /\ comments[k].end < path.end
           /\ ~inExpression(path, comments[k])
        THEN commentToHtml(comments[k])
        ELSE <<>>])

ClosingString(path) ==
    LET name == IF isIdent(path.name)
                THEN IF options.terse THEN <<"/">>
                     ELSE <<"$", "{">> \o NameProperty(path.name) \o <<"}">>
                ELSE NameProperty(path.name)
        str == <<"<", "/">> \o name \o <<">">>
    IN  IF isRootElement(path) THEN str \o <<Backtick>> ELSE str

\* /[<>&"]/.test(text)
MatchSpecial(text) == \E k \in 1..Len(text) : text[k] \in {"<", ">", "&", "\""}

ImportString ==
    LET lib == tagImport.module
        exp == IF tagImport.type = "object" /\ tagImport.export # <<>>
               THEN tagImport.export ELSE tagString
        imp == IF tagString # exp THEN exp \o <<" ", "a", "s", " ">> \o tagString ELSE exp
    IN  <<"i", "m", "p", "o", "r", "t", " ", "{", " ">> \o imp
        \o <<" ", "}", " ", "f", "r", "o", "m", " ", Apostrophe>> \o lib \o <<Apostrophe, ";", "\n">>

(***************************************************************************)
(* The traversal: the visitor of the node at pc, then Program.exit.        *)
(***************************************************************************)
Visiting(type) == pc \in 1..Len(ast) /\ ast[pc].type = type

Static == <<code, ast, comments, options, start, sc, scanPc, result>>

JSXOpeningElement ==
    /\ Visiting("JSXOpeningElement")
    /\ jsx' = TRUE
    /\ out' = out \o WrapName(ast[pc]) \o RemoveComments(ast[pc])
                  \o DelimitOpening(ast[pc]) \o ConvertComments(ast[pc])
    /\ pc' = pc + 1
    /\ UNCHANGED Static

JSXClosingElement ==
    /\ Visiting("JSXClosingElement")
    /\ out' = Append(out, replaceWithString(ast[pc], ClosingString(ast[pc])))
    /\ pc' = pc + 1
    /\ UNCHANGED <<jsx, Static>>

JSXOpeningFragment ==
    /\ Visiting("JSXOpeningFragment")
    /\ out' = Append(out, IF ~isRootElement(ast[pc])
                          THEN removePath(ast[pc])
                          ELSE replaceWithString(ast[pc], tagString \o <<Backtick>>))
    /\ pc' = pc + 1
    /\ UNCHANGED <<jsx, Static>>

JSXClosingFragment ==
    /\ Visiting("JSXClosingFragment")
    /\ out' = Append(out, IF ~isRootElement(ast[pc])
                          THEN removePath(ast[pc])
                          ELSE replaceWithString(ast[pc], <<Backtick>>))
    /\ pc' = pc + 1
    /\ UNCHANGED <<jsx, Static>>

JSXSpreadAttribute ==
    /\ Visiting("JSXSpreadAttribute")
    /\ out' = out \o
              <<Edit("replaceWith", ast[pc].start, ast[pc].end,
                     slice(code, ast[pc].argument.start, ast[pc].argument.end)),
                prependString(ast[pc], <<".", ".", ".", "$", "{">>),
                appendString(ast[pc], <<"}">>)>>
    /\ pc' = pc + 1
    /\ UNCHANGED <<jsx, Static>>

JSXText ==
    /\ Visiting("JSXText")
    /\ out' = Append(out, replaceWithString(ast[pc],
                 IF MatchSpecial(ast[pc].value)
                 THEN <<"$", "{", Backtick>> \o ast[pc].value \o <<Backtick, "}">>
                 ELSE ast[pc].value))
    /\ pc' = pc + 1
    /\ UNCHANGED <<jsx, Static>>

JSXExpressionContainer ==
    /\ Visiting("JSXExpressionContainer")
    /\ out' = Append(out, IF isJSXEmptyExpression(ast[pc].expression)
                          THEN removePath(ast[pc])
                          ELSE prependString(ast[pc], <<"$">>))
    /\ pc' = pc + 1
    /\ UNCHANGED <<jsx, Static>>

ProgramExit ==
    /\ pc = Len(ast) + 1 /\ pc > 1
    /\ out' = IF jsx /\ tagImport.type # "false"
              THEN Append(out, Edit("prependString", 0, Len(code), ImportString))
              ELSE out
    /\ pc' = pc + 1
    /\ UNCHANGED <<jsx, Static>>

\* a file of nested JSX
Next ==
    \/ JSXOpeningElement
    \/ JSXClosingElement
    \/ JSXOpeningFragment
    \/ JSXClosingFragment
    \/ JSXText
    \/ JSXExpressionContainer
    \/ ProgramExit

\* a file of one element with attributes
NextTag ==
    \/ JSXOpeningElement
    \/ JSXClosingElement
    \/ JSXSpreadAttribute
    \/ JSXText
    \/ JSXExpressionContainer
    \/ ProgramExit

Done == pc = Len(ast) + 2

(***************************************************************************)
(* The transform of one file                                               *)
(***************************************************************************)
DefaultOptions == [tag |-> <<>>, terse |-> FALSE, import |-> [type |-> "false", module |-> <<>>, export |-> <<>>]]

Imports ==
    { [type |-> "false", module |-> <<>>, export |-> <<>>],
      [type |-> "string", module |-> <<"m">>, export |-> <<>>],
      [type |-> "object", module |-> <<"m">>, export |-> <<"x">>] }

Options == [tag : {<<>>, <<"h">>}, terse : BOOLEAN, import : Imports]

NoScan ==
    /\ start = 0
    /\ sc = ScanInit(0)
    /\ scanPc = "idle"
    /\ result = <<>>

Init ==
    /\ \E tn \in TagNames : \E f \in NestedFiles(tn) :
           /\ code = f.code
           /\ ast = f.ast
    /\ comments = <<>>
    /\ options \in Options
    /\ pc = 1
    /\ out = <<>>
    /\ jsx = FALSE
    /\ NoScan

InitTag ==
    /\ \E f \in TagFiles :
           /\ code = f.code
           /\ ast = f.ast
           /\ comments = f.comments
    /\ options = DefaultOptions
    /\ pc = 1
    /\ out = <<>>
    /\ jsx = FALSE
    /\ NoScan

Spec == Init /\ [][Next]_vars

SpecTag == InitTag /\ [][NextTag]_vars

(***************************************************************************)
(* The scanner on its own: a text and a start offset, then the loop one    *)
(* iteration at a time, then the return.                                   *)
(***************************************************************************)
ScanToks ==
    { <<" ">>, <<"\n">>, <<"\r">>, <<"x">>, <<"/">>, <<"*">>,
      <<"/", "/", "x">>, <<"/", "*", "x", "*", "/">> }

ScanTexts == { Flatten(ts) : ts \in UNION { [1..n -> ScanToks] : n \in 0..MaxToks } }

NoFile ==
    /\ ast = <<>>
    /\ comments = <<>>
    /\ options = DefaultOptions
    /\ pc = 0
    /\ out = <<>>
    /\ jsx = FALSE

InitScan ==
    /\ code \in ScanTexts
    /\ start \in 0..Min(MaxStart, Len(code))
    /\ sc = ScanInit(start)
    /\ scanPc = "loop"
    /\ result = <<>>
    /\ NoFile

ScanStep ==
    /\ scanPc = "loop"
    /\ ScanRunning(code, sc)
    /\ sc' = ScanIter(code, sc)
    /\ UNCHANGED <<code, ast, comments, options, pc, out, jsx, start, scanPc, result>>

ScanExit ==
    /\ scanPc = "loop"
    /\ ~ScanRunning(code, sc)
    /\ scanPc' = "done"
    /\ result' = ScanReturn(code, sc)
    /\ UNCHANGED <<code, ast, comments, options, pc, out, jsx, start, sc>>

NextScan == ScanStep \/ ScanExit

SpecScan == InitScan /\ [][NextScan]_vars

SpecScanFair == SpecScan /\ WF_vars(NextScan)

(***************************************************************************)
(* The leading run of a text, read off the text itself: whitespace and     *)
(* complete comments from an offset on, up to the first character that is  *)
(* neither.  A line comment runs up to (not including) its "\n" or "\r", a *)
(* block comment through its closing star-slash.                           *)
(***************************************************************************)
RECURSIVE LineEnd(_, _)
LineEnd(c, q) ==
    IF q >= Len(c) THEN Len(c)
    ELSE IF charAt(c, q) \in {"\n", "\r"} THEN q
    ELSE LineEnd(c, q + 1)

RECURSIVE BlockEnd(_, _)
BlockEnd(c, q) ==
    IF q + 1 >= Len(c) THEN Len(c)
    ELSE IF charAt(c, q) = "*" /\ charAt(c, q + 1) = "/" THEN q
    ELSE BlockEnd(c, q + 1)

RECURSIVE LeadingRun(_, _, _)
LeadingRun(c, pos, acc) ==
    IF pos >= Len(c)
    THEN [comments |-> acc, p |-> Len(c), stopped |-> FALSE]
    ELSE IF IsSpace(charAt(c, pos))
    THEN LeadingRun(c, pos + 1, acc)
    ELSE IF charAt(c, pos) = "/" /\ charAt(c, pos + 1) = "/"
    THEN LET q == LineEnd(c, pos + 2) IN
         IF q >= Len(c)
         THEN [comments |-> acc, p |-> Len(c), stopped |-> FALSE]
         ELSE LeadingRun(c, q, Append(acc, [start |-> pos, end |-> q]))
    ELSE IF charAt(c, pos) = "/" /\ charAt(c, pos + 1) = "*"
    THEN LET q == BlockEnd(c, pos + 2) IN
         IF q >= Len(c)
         THEN [comments |-> acc, p |-> Len(c), stopped |-> FALSE]
         ELSE LeadingRun(c, q + 2, Append(acc, [start |-> pos, end |-> q + 2]))
    ELSE [comments |-> acc, p |-> pos, stopped |-> TRUE]

Run == LeadingRun(code, start, <<>>)

\* C3: when the text from start is whitespace and complete comments followed
\* by a terminating character, the returned list has one span per comment of
\* that run, in source order, each span covering its comment.
C3_AllCommentsReported ==
    (scanPc = "done" /\ Run.stopped) =>
        /\ Len(result) = Len(Run.comments)
        /\ \A k \in 1..Len(result) :
               /\ result[k].start <= Run.comments[k].start
               /\ Run.comments[k].end <= result[k].end

\* C4: every returned span lies in the text at or after start, is not empty,
\* and ends at or before the first character at or after start that is
\* neither whitespace nor part of a comment.
C4_NothingOutsideRun ==
    scanPc = "done" =>
        \A k \in 1..Len(result) :
            /\ start <= result[k].start
            /\ result[k].start < result[k].end
            /\ result[k].end <= Len(code)
            /\ result[k].end <= Run.p

\* C10: the scan terminates, and when the end of input is reached inside a
\* line or block comment the returned list is the one the scan returns for
\* the text cut at the start of that comment, with no span reaching into it.
C10_UnterminatedDropped ==
    /\ <>(scanPc = "done")
    /\ []((scanPc = "done" /\ sc.type # NONE) =>
            /\ result = parseMaybeComments(slice(code, 0, sc.commentStart), start)
            /\ \A k \in 1..Len(result) : result[k].end <= sc.commentStart)

\* a completed comment followed by a comment the input ends in
C10_Witness ==
    scanPc = "done" /\ sc.type # NONE /\ Len(result) >= 1 /\ sc.i >= Len(code)

(***************************************************************************)
(* Properties of the rewrite of a file of nested JSX (Spec).               *)
(***************************************************************************)
Edits == 1..Len(out)
Nodes == 1..Len(ast)

EditsAt(n) == { i \in Edits : out[i].start = n.start /\ out[i].end = n.end }

\* the backticks the edits keyed by the range of node n insert
TicksAt(n) ==
    UNION { { <<i, q>> : q \in { r \in 1..Len(out[i].text) : out[i].text[r] = Backtick } } :
            i \in EditsAt(n) }

IsOpening(k) == ast[k].type \in {"JSXOpeningElement", "JSXOpeningFragment"}
IsClosing(k) == ast[k].type \in {"JSXClosingElement", "JSXClosingFragment"}

\* the closing tag of the element or fragment opened at k, by nesting depth
RECURSIVE CloserFrom(_, _)
CloserFrom(j, depth) ==
    IF j > Len(ast) THEN 0
    ELSE IF IsOpening(j) /\ ~ast[j].selfClosing THEN CloserFrom(j + 1, depth + 1)
    ELSE IF IsClosing(j) THEN (IF depth = 0 THEN j ELSE CloserFrom(j + 1, depth - 1))
    ELSE CloserFrom(j + 1, depth)

CloserOf(k) == IF ast[k].selfClosing THEN k ELSE CloserFrom(k + 1, 0)

\* a root node: the parent of its element or fragment is no JSX element and
\* no JSX fragment
IsRootNode(k) == ast[k].parentPath.parent.type \notin {"JSXElement", "JSXFragment"}

OpeningDelimiters(k) ==
    { i \in EditsAt(ast[k]) :
        /\ out[i].op \in {"prependString", "replaceWithString"}
        /\ out[i].text = tagString \o <<Backtick>> }

ClosingDelimiters(k) ==
    { i \in EditsAt(ast[CloserOf(k)]) :
        /\ out[i].op = IF ast[k].selfClosing THEN "appendString" ELSE "replaceWithString"
        /\ out[i].text # <<>>
        /\ out[i].text[Len(out[i].text)] = Backtick }

\* C1: at the end of the traversal every root element or fragment has exactly
\* one opening delimiter (tag name and backtick) at its opening tag and
\* exactly one closing backtick at its end (its opening tag when
\* self-closing, its closing tag or closing fragment otherwise), and the tags
\* of every other element or fragment carry no backtick at all.
C1_RootDelimiting ==
    Done =>
        \A k \in Nodes : IsOpening(k) =>
            /\ CloserOf(k) # 0
            /\ IF IsRootNode(k)
               THEN /\ Cardinality(OpeningDelimiters(k)) = 1
                    /\ Cardinality(ClosingDelimiters(k)) = 1
                    /\ Cardinality(TicksAt(ast[k]) \cup TicksAt(ast[CloserOf(k)])) = 2
               ELSE TicksAt(ast[k]) \cup TicksAt(ast[CloserOf(k)]) = {}

\* a closed root element or fragment around a nested fragment and a nested
\* element, all visited
C1_Witness ==
    /\ Done
    /\ \E k \in Nodes : IsOpening(k) /\ IsRootNode(k) /\ ~ast[k].selfClosing
    /\ \E k \in Nodes : ast[k].type = "JSXOpeningFragment" /\ ~IsRootNode(k)
    /\ \E k \in Nodes : ast[k].type = "JSXOpeningElement" /\ ~IsRootNode(k)

\* the closing tags the claim names components
IsComponentName(nameNode) ==
    \/ nameNode.type = "JSXMemberExpression"
    \/ /\ nameNode.type = "JSXIdentifier"
       /\ \/ nameNode.name[1] \in Upper
          \/ \E q \in 1..Len(nameNode.name) : nameNode.name[q] \in {".", "$"}

SourceOf(n) == slice(code, n.start, n.end)

ExpectedClosing(k) ==
    (IF IsComponentName(ast[k].name)
     THEN IF options.terse
          THEN <<"<", "/", "/", ">">>
          ELSE <<"<", "/", "$", "{">> \o SourceOf(ast[k].name) \o <<"}", ">">>
     ELSE <<"<", "/">> \o SourceOf(ast[k].name) \o <<">">>)
    \o (IF IsRootNode(k) THEN <<Backtick>> ELSE <<>>)

\* C8: every visited closing tag is replaced by <//> (terse) or </${N}> for
\* a component name of source text N, by </n> for any other name n, with a
\* closing backtick appended exactly when the tag is the root node.
C8_ClosingTag ==
    \A k \in Nodes : (k < pc /\ ast[k].type = "JSXClosingElement") =>
        /\ Cardinality(EditsAt(ast[k])) = 1
        /\ \A i \in EditsAt(ast[k]) :
               out[i].op = "replaceWithString" /\ out[i].text = ExpectedClosing(k)

ImportEdits ==
    { i \in Edits : out[i].op = "prependString" /\ out[i].start = 0 /\ out[i].end = Len(code) }

\* C9: at program exit exactly one import statement is prepended if and only
\* if an import option is set and some JSX element or fragment was visited,
\* and none otherwise.
C9_ImportIffJsx ==
    Done =>
        Cardinality(ImportEdits) =
            IF options.import.type # "false" /\ (\E k \in Nodes : IsOpening(k)) THEN 1 ELSE 0

(***************************************************************************)
(* Properties of the visit of an opening tag with attributes (SpecTag).    *)
(* The opening tag is the first node of the file.                          *)
(***************************************************************************)
Tag == ast[1]
TagVisited == pc > 1

Removes == { i \in Edits : out[i].op = "remove" }
RangeEdits == { i \in Edits : out[i].op \in {"remove", "overwrite"} }

Removed(x) == \E i \in Removes : out[i].start <= x /\ x < out[i].end

\* the text between two offsets is a line break, an indentation of at least
\* one space, the line comment //x, a line break and the next indentation
OwnLineComment(from, to, eol, n) ==
    \E m \in 0..MaxIndent :
        slice(code, from, to) = eol \o Spaces(n) \o <<"/", "/", "x">> \o eol \o Spaces(m)

\* C2: a line comment alone on its own indented line between the tag name
\* and the first attribute, or between two attributes, is removed as exactly
\* its line: indentation, comment and whole line terminator, for "\n", "\r"
\* and "\r\n" alike.
C2_CommentLineRemoved ==
    TagVisited =>
        \A k \in 1..Len(Tag.attributes) : \A eol \in Eols : \A n \in 1..MaxIndent :
            LET from == ScanStarts(Tag)[k]
                to == Tag.attributes[k].start
            IN  OwnLineComment(from, to, eol, n) =>
                    \A x \in from..(to - 1) :
                        Removed(x) <=> /\ from + Len(eol) <= x
                                       /\ x < from + Len(eol) + n + 3 + Len(eol)

\* C5: no span removed by the opening-tag rule intersects an attribute, every
\* removed span lies inside the opening tag, and no removed span starts
\* before the end of the span removed just before it.
C5_RemovesAvoidAttributes ==
    TagVisited =>
        /\ \A i \in Removes :
               /\ \A k \in 1..Len(Tag.attributes) :
                      \/ out[i].end <= Tag.attributes[k].start
                      \/ Tag.attributes[k].end <= out[i].start
               /\ Tag.start <= out[i].start
               /\ out[i].end <= Tag.end
        /\ \A i \in Removes : \A j \in Removes : i < j => out[i].end <= out[j].start

\* C6: the range edits (remove, overwrite) of the visit of one opening tag
\* target pairwise disjoint ranges of the original text.
C6_RangeEditsDisjoint ==
    TagVisited =>
        \A i \in RangeEdits : \A j \in RangeEdits :
            i < j => out[i].end <= out[j].start \/ out[j].end <= out[i].start

\* the spans the scanner reports from the tag-name end and each attribute end
Reported ==
    UNION { { parseMaybeComments(code, ScanStarts(Tag)[k])[q] :
                q \in 1..Len(parseMaybeComments(code, ScanStarts(Tag)[k])) } :
            k \in 1..Len(ScanStarts(Tag)) }

RemovedSpans == { [start |-> out[i].start, end |-> out[i].end] : i \in Removes }

\* C7 as stated: for an opening tag with any number of attributes, zero
\* included, every span the scanner reports from the end of the tag name and
\* from the end of each attribute is removed.
C7_AllTagsScanned == TagVisited => Reported \subseteq RemovedSpans

\* C7 as amended: with at least one attribute the spans removed are exactly
\* those the scanner reports from the end of the tag name and from the end of
\* each attribute; with no attribute nothing is removed.
C7_ScannedWhenAttributes ==
    TagVisited =>
        IF Len(Tag.attributes) > 0
        THEN RemovedSpans = Reported
        ELSE RemovedSpans = {}

\* comments removed before the first and after the last of two attributes
C7_Witness ==
    /\ TagVisited
    /\ Len(Tag.attributes) = 2
    /\ \E i \in Removes : out[i].end <= Tag.attributes[1].start
    /\ \E i \in Removes : out[i].start >= Tag.attributes[2].end

====
